---- MODULE Spec2Model ----
(***************************************************************************)
(* A model of praw/exceptions.py: the RedditErrorItem value type, the      *)
(* error-list normalisation of APIException (_form_exception_list and      *)
(* _parse_exception_list), the APIException constructor and its            *)
(* deprecated accessors.                                                   *)
(*                                                                         *)
(* Python values are tagged records, so that values of different Python    *)
(* types can be compared: a str is [t |-> "str", s |-> ...], None is       *)
(* [t |-> "NoneType"], a list is [t |-> "list", l |-> <<...>>], and a      *)
(* RedditErrorItem is a record of its four instance attributes.            *)
(* A call's outcome is [raised |-> <exception name or "">, value |-> ...]. *)
(***************************************************************************)
EXTENDS Naturals, Sequences, FiniteSets

VARIABLES
    op,             \* the operation that ran last
    arg,            \* its first argument as it was before the call
    extra,          \* its trailing positional arguments (*optional_args)
    ret,            \* its outcome: [raised, value]
    arg_after,      \* the caller's first argument as it is after the call
    self_items,     \* APIException instance: self.items (Unset when never assigned)
    self_args,      \* APIException instance: BaseException.args
    warnings        \* the warn() calls made so far, in order

vars == <<op, arg, extra, ret, arg_after, self_items, self_args, warnings>>

(*************************** bounds of the model ***************************)
MaxLen == 2         \* longest outer list handed to the normaliser
MaxReads == 3       \* most deprecated-accessor reads in one behaviour

(****************************** Python values ******************************)
None == [t |-> "NoneType"]
Unset == [t |-> "unset"]
NotImplemented == [t |-> "NotImplementedType"]
Str(s) == [t |-> "str", s |-> s]
Bool(b) == [t |-> "bool", b |-> b]
List(l) == [t |-> "list", l |-> l]

IsStr(x) == x.t = "str"
IsList(x) == x.t = "list"
IsRedditErrorItem(x) == x.t = "RedditErrorItem"

\* Python truthiness of the values that reach a field slot.
bool(x) ==
    CASE x.t = "NoneType" -> FALSE
      [] x.t = "str" -> x.s # ""
      [] x.t = "list" -> Len(x.l) > 0
      [] x.t = "bool" -> x.b
      [] OTHER -> TRUE

\* repr() of a str without quotes or escapes, and of None.
repr(x) ==
    CASE x.t = "str" -> "'" \o x.s \o "'"
      [] x.t = "NoneType" -> "None"
      [] OTHER -> "<object>"

Ok(v) == [raised |-> "", value |-> v]
Raise(e) == [raised |-> e, value |-> None]

(***************************** RedditErrorItem *****************************)
RedditErrorItem(error_type, message, field) ==
    [t |-> "RedditErrorItem", error_type |-> error_type, message |-> message,
     field |-> field, called_from_reddit_api_exception |-> FALSE]

error_message_always_field(self) ==
    LET error_str == self.error_type.s \o ": " \o repr(self.message)
    IN IF self.field # None
       THEN error_str \o " on field " \o repr(self.field)
       ELSE error_str

error_message(self) ==
    LET error_str == self.error_type.s \o ": " \o repr(self.message)
    IN IF bool(self.field)
       THEN error_str \o " on field " \o repr(self.field)
       ELSE error_str

\* A slip the equality could have: the field left out of the compared tuple.
__eq__without_field(self, other) ==
    IF IsRedditErrorItem(other)
    THEN Bool(<<self.error_type, self.message>> = <<other.error_type, other.message>>)
    ELSE NotImplemented

\* RedditErrorItem.__eq__; super().__eq__(other) is object.__eq__, which
\* answers NotImplemented for an other that is not self.
__eq__(self, other) ==
    IF IsRedditErrorItem(other)
    THEN Bool(<<self.error_type, self.message, self.field>>
              = <<other.error_type, other.message, other.field>>)
    ELSE NotImplemented

\* self == other as the interpreter evaluates it: self.__eq__(other) first;
\* on NotImplemented the reflected __eq__ of the str, list or None on the
\* right (NotImplemented too); then identity, which two values of different
\* types never have.
PyEq(self, other) ==
    LET r == __eq__(self, other)
        reflected == NotImplemented
    IN IF r # NotImplemented THEN Ok(r)
       ELSE IF reflected # NotImplemented THEN Ok(reflected)
       ELSE Ok(Bool(FALSE))

(********************** APIException: normalisation ************************)
FormOk(v, after) == [raised |-> "", value |-> v, items_after |-> after]
FormRaise(e, after) == [raised |-> e, value |-> None, items_after |-> after]

\* One turn of the loop of lines 116-120: what items[sub_list_number] holds
\* after it.
PadSubList(sub_list) ==
    IF ~IsList(sub_list) THEN sub_list
    ELSE IF Len(sub_list.l) = 2 THEN List(sub_list.l \o <<None>>)
    ELSE sub_list

\* _form_exception_list(items, *optional_args). items_after is the object
\* the caller passed as items, as it is after the call: the loop assigns into
\* items itself, which is that object unless line 109 rebound the name.
_form_exception_list(items, optional_args) ==
    LET items1 == IF IsStr(items)
                  THEN List(<<List(<<items>> \o optional_args)>>)
                  ELSE items
        items2 == IF IsRedditErrorItem(items1) THEN List(<<items1>>) ELSE items1
    IN IF ~IsList(items2) THEN FormOk(items2, items)
       ELSE IF Len(items2.l) = 0 THEN FormRaise("IndexError", items)
       ELSE IF IsStr(items2.l[1])
       THEN FormOk(IF Len(items2.l) = 3
                   THEN List(<<items2>>)
                   ELSE List(<<List(items2.l \o <<None>>)>>),
                   items)
       ELSE IF IsList(items2.l[1])
       THEN LET padded == List([i \in 1..Len(items2.l) |-> PadSubList(items2.l[i])])
            IN FormOk(padded, IF IsList(items) THEN padded ELSE items)
       ELSE FormOk(items2, items)

SetCalled(exception) ==
    [exception EXCEPT !.called_from_reddit_api_exception = TRUE]

\* The caller's object once every RedditErrorItem reachable from it is marked.
MarkOwned(v) ==
    IF IsRedditErrorItem(v) THEN SetCalled(v)
    ELSE IF IsList(v)
    THEN List([i \in 1..Len(v.l) |->
                 IF IsRedditErrorItem(v.l[i]) THEN SetCalled(v.l[i]) ELSE v.l[i]])
    ELSE v

\* A slip the conversion could have: the raw field taken as it is.
ConvertException_raw_field(exception) ==
    IF IsRedditErrorItem(exception) THEN Ok(exception)
    ELSE IF Len(exception.l) < 3 THEN Raise("IndexError")
    ELSE Ok(RedditErrorItem(exception.l[1], exception.l[2], exception.l[3]))

\* One element of the comprehension of lines 133-142. A list shorter than
\* three raises IndexError at exception[0], [1] or [2].
ConvertException(exception) ==
    IF IsRedditErrorItem(exception) THEN Ok(exception)
    ELSE IF Len(exception.l) < 3 THEN Raise("IndexError")
    ELSE Ok(RedditErrorItem(exception.l[1], exception.l[2],
                            IF bool(exception.l[3]) THEN exception.l[3] ELSE Str("")))

\* _parse_exception_list(exceptions). The marking loop of lines 143-144 runs
\* only when the comprehension completed; it marks the RedditErrorItem
\* objects that were passed in, which baselist holds by reference.
_parse_exception_list(exceptions) ==
    LET n == Len(exceptions.l)
        converted == [i \in 1..n |-> ConvertException(exceptions.l[i])]
    IN IF ~IsList(exceptions)   \* a RedditErrorItem or None is not iterable
       THEN [raised |-> "TypeError", value |-> None, items_after |-> exceptions]
       ELSE IF \E i \in 1..n : converted[i].raised # ""
       THEN [raised |-> "IndexError", value |-> None, items_after |-> exceptions]
       ELSE [raised |-> "",
             value |-> List([i \in 1..n |-> SetCalled(converted[i].value)]),
             items_after |-> MarkOwned(exceptions)]

\* The normaliser: _form_exception_list, then _parse_exception_list on the
\* list it formed.
Normalize(items, args) ==
    LET formed == _form_exception_list(items, args)
    IN IF formed.raised # "" THEN formed
       ELSE LET parsed == _parse_exception_list(formed.value)
            IN [raised |-> parsed.raised, value |-> parsed.value,
                items_after |-> IF parsed.raised = ""
                                THEN MarkOwned(formed.items_after)
                                ELSE formed.items_after]

(*********************** APIException: construction ************************)
\* The names each class body of the hierarchy binds (lines 15-16, 85-223,
\* 226-227); Exception, BaseException and object bind none of the names
\* looked up here.
ClassDict(cls) ==
    CASE cls = "APIException" ->
           {"_form_exception_list", "_parse_exception_list", "error_type",
            "message", "field", "_get_old_attr", "__init__"}
      [] OTHER -> {}

MRO(cls) ==
    CASE cls = "RedditAPIException" ->
           <<"RedditAPIException", "APIException", "PRAWException">>
      [] cls = "APIException" -> <<"APIException", "PRAWException">>
      [] OTHER -> <<cls>>

\* Attribute lookup on an instance of cls that has no attribute of its own yet.
HasAttr(cls, name) == \E i \in 1..Len(MRO(cls)) : name \in ClassDict(MRO(cls)[i])

\* Calling the one-argument method that a looked-up name is bound to.
Invoke(name, x) ==
    CASE name = "_parse_exception_list" -> _parse_exception_list(x)
      [] OTHER -> [raised |-> "TypeError", value |-> None, items_after |-> x]

InitOk(v) == [raised |-> "", items |-> v, args |-> v.l]
InitRaise(e) == [raised |-> e, items |-> Unset, args |-> <<>>]

\* A constructor that calls the method under the name the class binds and
\* probes items[0] only of a non-empty list.
__init__unguarded(cls, items, optional_args) ==
    LET shaped == IF IsStr(items)
                  THEN List(<<List(<<items>> \o optional_args)>>)
                  ELSE IF IsList(items) /\ Len(items.l) > 0 /\ IsStr(items.l[1])
                  THEN List(<<items>>)
                  ELSE items
        parsed == Invoke("_parse_exception_list", shaped)
    IN IF parsed.raised # "" THEN InitRaise(parsed.raised) ELSE InitOk(parsed.value)

\* APIException.__init__(self, items, *optional_args) on an instance of cls:
\* the outcome, self.items and what super().__init__(*self.items) stores.
__init__(cls, items, optional_args) ==
    LET shaped == IF IsStr(items)
                  THEN Ok(List(<<List(<<items>> \o optional_args)>>))
                  ELSE IF IsList(items)
                  THEN IF Len(items.l) = 0 THEN Raise("IndexError")
                       ELSE IF IsStr(items.l[1]) THEN Ok(List(<<items>>))
                       ELSE Ok(items)
                  ELSE Ok(items)
    IN IF shaped.raised # "" THEN InitRaise(shaped.raised)
       ELSE IF ~HasAttr(cls, "parse_exception_list") THEN InitRaise("AttributeError")
       ELSE LET parsed == Invoke("parse_exception_list", shaped.value)
            IN IF parsed.raised # "" THEN InitRaise(parsed.raised)
               ELSE InitOk(parsed.value)

(****************** APIException: deprecated accessors *********************)
getattr(item, attrname) ==
    CASE attrname = "error_type" -> item.error_type
      [] attrname = "message" -> item.message
      [] attrname = "field" -> item.field

\* The warn() call of lines 194-203. The reST double backquotes that the
\* format string puts around the attribute name are left out of the text.
DeprecationWarning(attrname) ==
    [category |-> "DeprecationWarning",
     message |-> "Accessing attribute " \o attrname
                 \o " through APIException is deprecated. "
                 \o "This behavior will be removed in PRAW 8.0. Check out "
                 \o "https://praw.readthedocs.io/en/latest/package_info/"
                 \o "praw7_migration.html to learn how to migrate your code.",
     stacklevel |-> 3]

\* A slip the accessor could have: the last record instead of the first.
_get_old_attr_last(items, attrname) ==
    [warned |-> <<DeprecationWarning(attrname)>>,
     result |-> IF ~IsList(items) THEN Raise("AttributeError")
                ELSE IF Len(items.l) = 0 THEN Raise("IndexError")
                ELSE Ok(getattr(items.l[Len(items.l)], attrname))]

\* _get_old_attr(self, attrname), with items the self.items of the instance: the
\* warn() call it makes, then the outcome of getattr(self.items[0], attrname).
_get_old_attr(items, attrname) ==
    [warned |-> <<DeprecationWarning(attrname)>>,
     result |-> IF ~IsList(items) THEN Raise("AttributeError")
                ELSE IF Len(items.l) = 0 THEN Raise("IndexError")
                ELSE Ok(getattr(items.l[1], attrname))]

APIException_error_type(items) == _get_old_attr(items, "error_type")
APIException_message(items) == _get_old_attr(items, "message")
APIException_field(items) == _get_old_attr(items, "field")

(******************************** inputs ***********************************)
Kinds == {"A", "B"}
Messages == {"m", "n"}
FieldVals == {None, Str(""), Str("f")}

SeqsUpTo(S, n) == UNION {[1..k -> S] : k \in 0..n}

\* Raw errors as the normaliser takes them: [kind, message] and
\* [kind, message, field] lists of strings, the field possibly None.
TwoLists == {List(<<Str(k), Str("m")>>) : k \in Kinds}
ThreeLists == {List(<<Str(k), Str("m"), f>>) : k \in Kinds, f \in FieldVals}

\* RedditErrorItem objects a caller holds: fresh ones, and ones an earlier
\* _parse_exception_list call has marked.
ItemsOf(ms) ==
    {[RedditErrorItem(Str(k), Str(m), f)
        EXCEPT !.called_from_reddit_api_exception = c] :
     k \in Kinds, m \in ms, f \in FieldVals, c \in BOOLEAN}
ErrorItems == ItemsOf({"m"})
AllItems == ItemsOf(Messages)

Elements == TwoLists \cup ThreeLists \cup ErrorItems
ListInputs == {List(l) : l \in SeqsUpTo(Elements, MaxLen)}
StrInputs ==
    {<<Str(k), a>> : k \in Kinds, a \in SeqsUpTo({Str("m"), Str("")}, 2)}

\* <<items, optional_args>> of every accepted shape, and the empty list.
Inputs ==
    StrInputs
    \cup {<<x, <<>> >> : x \in ErrorItems \cup TwoLists \cup ThreeLists \cup ListInputs}

Classes == {"APIException", "RedditAPIException"}
NonItems == {None, Str("A"), List(<<>>), List(<<Str("A"), Str("m"), Str("f")>>)}
AccessorNames == {"error_type", "message", "field"}

(******************************* actions ***********************************)
\* A behaviour is one call on freshly drawn arguments: every action below
\* starts from the initial state.
Init ==
    /\ op = "init"
    /\ arg = None
    /\ extra = <<>>
    /\ ret = Ok(None)
    /\ arg_after = None
    /\ self_items = Unset
    /\ self_args = <<>>
    /\ warnings = <<>>

\* APIException._form_exception_list(items, *optional_args)
FormExceptionList ==
    /\ op = "init"
    /\ \E in \in Inputs :
           LET r == _form_exception_list(in[1], in[2])
           IN /\ op' = "_form_exception_list"
              /\ arg' = in[1]
              /\ extra' = in[2]
              /\ ret' = [raised |-> r.raised, value |-> r.value]
              /\ arg_after' = r.items_after
              /\ UNCHANGED <<self_items, self_args, warnings>>

\* APIException._parse_exception_list(exceptions)
ParseExceptionList ==
    /\ op = "init"
    /\ \E exceptions \in ListInputs :
           LET r == _parse_exception_list(exceptions)
           IN /\ op' = "_parse_exception_list"
              /\ arg' = exceptions
              /\ extra' = <<>>
              /\ ret' = [raised |-> r.raised, value |-> r.value]
              /\ arg_after' = r.items_after
              /\ UNCHANGED <<self_items, self_args, warnings>>

\* _parse_exception_list(_form_exception_list(items, *optional_args))
NormalizeCall ==
    /\ op = "init"
    /\ \E in \in Inputs :
           LET r == Normalize(in[1], in[2])
           IN /\ op' = "normalize"
              /\ arg' = in[1]
              /\ extra' = in[2]
              /\ ret' = [raised |-> r.raised, value |-> r.value]
              /\ arg_after' = r.items_after
              /\ UNCHANGED <<self_items, self_args, warnings>>

\* cls(items, *optional_args): a new instance, then __init__ on it.
Construct ==
    /\ op = "init"
    /\ \E cls \in Classes, in \in Inputs :
           LET r == __init__(cls, in[1], in[2])
           IN /\ op' = "__init__"
              /\ arg' = in[1]
              /\ extra' = in[2]
              /\ ret' = [raised |-> r.raised, value |-> Str(cls)]
              /\ arg_after' = in[1]
              /\ self_items' = r.items
              /\ self_args' = r.args
              /\ UNCHANGED warnings

\* item == other
Compare ==
    /\ op = "init"
    /\ \E item \in AllItems, other \in AllItems \cup NonItems :
           /\ op' = "__eq__"
           /\ arg' = item
           /\ extra' = <<other>>
           /\ ret' = PyEq(item, other)
           /\ arg_after' = item
           /\ UNCHANGED <<self_items, self_args, warnings>>

\* item.error_message
Describe ==
    /\ op = "init"
    /\ \E item \in AllItems :
           /\ op' = "error_message"
           /\ arg' = item
           /\ extra' = <<>>
           /\ ret' = Ok(Str(error_message(item)))
           /\ arg_after' = item
           /\ UNCHANGED <<self_items, self_args, warnings>>

Next ==
    \/ FormExceptionList
    \/ ParseExceptionList
    \/ NormalizeCall
    \/ Construct
    \/ Compare
    \/ Describe

Spec == Init /\ [][Next]_vars

(***************** the deprecated accessors of an instance *****************)
\* An instance whose items is a list the normaliser returned.
InitAccessor ==
    /\ op = "init"
    /\ \E in \in Inputs :
           LET r == Normalize(in[1], in[2])
           IN /\ r.raised = ""
              /\ Len(r.value.l) >= 1
              /\ self_items = r.value
              /\ self_args = r.value.l
    /\ arg = self_items
    /\ arg_after = self_items
    /\ extra = <<>>
    /\ ret = Ok(None)
    /\ warnings = <<>>

Read(attrname, r) ==
    /\ Len(warnings) < MaxReads
    /\ op' = attrname
    /\ warnings' = warnings \o r.warned
    /\ ret' = r.result
    /\ UNCHANGED <<arg, extra, arg_after, self_items, self_args>>

ReadErrorType == Read("error_type", APIException_error_type(self_items))
ReadMessage == Read("message", APIException_message(self_items))
ReadField == Read("field", APIException_field(self_items))

NextAccessor == ReadErrorType \/ ReadMessage \/ ReadField

SpecAccessor == InitAccessor /\ [][NextAccessor]_vars

(******************************** claims ***********************************)
\* The raw errors of an input, one per record the normaliser is to produce:
\* a string with its trailing strings is one raw error, so is a flat list of
\* strings and a single RedditErrorItem; any other list holds one per element.
RawErrors(items, args) ==
    IF IsStr(items) THEN <<List(<<items>> \o args)>>
    ELSE IF IsRedditErrorItem(items) THEN <<items>>
    ELSE IF Len(items.l) > 0 /\ IsStr(items.l[1]) THEN <<items>>
    ELSE items.l

IsMixedList(x) == IsList(x) /\ Len(x.l) > 0 /\ ~IsStr(x.l[1])
SameTriple(a, b) ==
    /\ a.error_type = b.error_type
    /\ a.message = b.message
    /\ a.field = b.field
Falsy(f) == f = None \/ f = Str("")

\* C1: for every input of an accepted shape, constructing the API exception
\* completes without raising and stores as self.items exactly the list the
\* normaliser (_form_exception_list, then _parse_exception_list) returns for
\* that input.
C1_ConstructionStoresNormalizerOutput ==
    (op = "__init__" /\ arg # List(<<>>)) =>
        LET n == Normalize(arg, extra)
        IN /\ ret.raised = ""
           /\ n.raised = ""
           /\ self_items = n.value

\* C2: constructing the API exception from a single string s with no trailing
\* strings completes and stores exactly one record, with kind s, message ""
\* and field "".
C2_SingleStringIsPadded ==
    (op = "__init__" /\ IsStr(arg) /\ extra = <<>>) =>
        /\ ret.raised = ""
        /\ IsList(self_items)
        /\ Len(self_items.l) = 1
        /\ SameTriple(self_items.l[1], RedditErrorItem(arg, Str(""), Str("")))

\* C3 as stated: every record the normaliser returns has a string field,
\* never None, also a record that was passed in as a RedditErrorItem whose
\* field is None.
C3_NoNoneFieldAtAll ==
    (op = "normalize" /\ ret.raised = "") =>
        \A i \in 1..Len(ret.value.l) : IsStr(ret.value.l[i].field)

\* C3 as amended: every record the normaliser builds from a raw list of
\* strings has a string field, the empty string when the raw field was
\* missing, None or empty and the raw field otherwise; a RedditErrorItem
\* that was passed in keeps the field it had, None included.
C3_RawFieldsCoerced ==
    (op = "normalize" /\ ret.raised = "") =>
        LET raw == RawErrors(arg, extra)
            out == ret.value.l
        IN /\ Len(out) = Len(raw)
           /\ \A i \in 1..Len(raw) :
                 IF IsRedditErrorItem(raw[i])
                 THEN out[i].field = raw[i].field
                 ELSE /\ IsStr(out[i].field)
                      /\ out[i].field =
                           (IF Len(raw[i].l) < 3 \/ Falsy(raw[i].l[3])
                            THEN Str("") ELSE raw[i].l[3])

\* C3 witness: the normaliser returned for a list holding both a raw triple
\* whose field is None and a RedditErrorItem whose field is None.
C3_Witness ==
    /\ op = "normalize"
    /\ ret.raised = ""
    /\ IsMixedList(arg)
    /\ \E i, j \in 1..Len(arg.l) :
          /\ IsList(arg.l[i]) /\ Len(arg.l[i].l) = 3 /\ arg.l[i].l[3] = None
          /\ ret.value.l[i].field = Str("")
          /\ IsRedditErrorItem(arg.l[j]) /\ arg.l[j].field = None
          /\ ret.value.l[j].field = None

\* C4: for a list mixing string-lists and RedditErrorItems, whatever its first
\* element is, _form_exception_list returns the list with every string-list
\* of length 2 padded with a trailing None and every other element as it
\* was, so that the normaliser converts every element to a record.
C4_EachElementPadded ==
    /\ (op = "_form_exception_list" /\ IsMixedList(arg)) =>
          /\ ret.raised = ""
          /\ Len(ret.value.l) = Len(arg.l)
          /\ \A i \in 1..Len(arg.l) :
                ret.value.l[i] =
                    (IF IsList(arg.l[i]) /\ Len(arg.l[i].l) = 2
                     THEN List(arg.l[i].l \o <<None>>)
                     ELSE arg.l[i])
    /\ (op = "normalize" /\ IsMixedList(arg)) => ret.raised = ""

\* C5: no successfully constructed API exception has an empty errors
\* sequence: for every constructor input, the empty list included, either
\* construction raises or self.items holds at least one record.
C5_ErrorsNeverEmpty ==
    (op = "__init__" /\ ret.raised = "") =>
        /\ IsList(self_items)
        /\ Len(self_items.l) >= 1

\* C5 witness: the constructor ran on the empty list and raised at the
\* items[0] probe, leaving self.items unassigned.
C5_Witness ==
    /\ op = "__init__"
    /\ arg = List(<<>>)
    /\ ret.raised = "IndexError"
    /\ self_items = Unset

\* C6: on an API exception holding at least one error, every read of a
\* deprecated accessor (error_type, message, field) makes exactly one warn()
\* call, a DeprecationWarning for the attribute read, returns that attribute
\* of the first record of self.items, and leaves self.items as it was; this
\* holds at every read of any sequence of reads.
C6_AccessorWarnsOnceReturnsFirst ==
    [][ /\ op' \in AccessorNames
        /\ Len(warnings') = Len(warnings) + 1
        /\ SubSeq(warnings', 1, Len(warnings)) = warnings
        /\ warnings'[Len(warnings')] = DeprecationWarning(op')
        /\ ret'.raised = ""
        /\ ret'.value = (CASE op' = "error_type" -> self_items.l[1].error_type
                            [] op' = "message" -> self_items.l[1].message
                            [] op' = "field" -> self_items.l[1].field)
        /\ self_items' = self_items
        /\ self_args' = self_args ]_vars

\* C6 witness: a second read, of field, on an exception whose two records
\* differ in kind and in field, after a read of error_type.
C6_Witness ==
    /\ op = "field"
    /\ Len(warnings) = 2
    /\ warnings[1] = DeprecationWarning("error_type")
    /\ Len(self_items.l) = 2
    /\ self_items.l[1].field # self_items.l[2].field
    /\ self_items.l[1].error_type # self_items.l[2].error_type
    /\ ret = Ok(self_items.l[1].field)

\* C7: two RedditErrorItems compare equal exactly when their kind, message
\* and field are all equal, whether or not either is marked as owned by an
\* API exception; comparing with a value that is not a RedditErrorItem never
\* raises and yields not-equal.
C7_EqualityIsStructural ==
    (op = "__eq__") =>
        /\ ret.raised = ""
        /\ ret.value = (IF IsRedditErrorItem(extra[1])
                        THEN Bool(SameTriple(arg, extra[1]))
                        ELSE Bool(FALSE))

\* C7 witness: two records with the same triple, one marked and one not,
\* compared equal.
C7_Witness ==
    /\ op = "__eq__"
    /\ IsRedditErrorItem(extra[1])
    /\ arg.called_from_reddit_api_exception
    /\ ~extra[1].called_from_reddit_api_exception
    /\ arg.field = None
    /\ ret = Ok(Bool(TRUE))

\* C8: error_message renders the kind, ": " and the quoted message, and
\* appends " on field " with the quoted field exactly when the field is a
\* non-empty string: a None field and an empty field give the same text with
\* no trailing clause; the text depends on kind, message and field alone.
C8_DescriptionShape ==
    (op = "error_message") =>
        LET base == arg.error_type.s \o ": '" \o arg.message.s \o "'"
        IN /\ ret.raised = ""
           /\ ret.value =
                (IF arg.field # None /\ arg.field # Str("")
                 THEN Str(base \o " on field '" \o arg.field.s \o "'")
                 ELSE Str(base))

\* C8 witness: the description of a record whose field is the empty string
\* is the bare kind and message.
C8_Witness ==
    /\ op = "error_message"
    /\ arg.field = Str("")
    /\ arg.error_type = Str("A")
    /\ arg.message = Str("n")
    /\ ret = Ok(Str("A: 'n'"))

\* C9: for an input list of n elements (string-lists and/or RedditErrorItems)
\* the normaliser returns exactly n records, the i-th carrying the kind and
\* message of the i-th input element, duplicates kept.
C9_OutputPreservesInput ==
    (op = "normalize" /\ IsMixedList(arg)) =>
        /\ ret.raised = ""
        /\ Len(ret.value.l) = Len(arg.l)
        /\ \A i \in 1..Len(arg.l) :
              IF IsRedditErrorItem(arg.l[i])
              THEN /\ ret.value.l[i].error_type = arg.l[i].error_type
                   /\ ret.value.l[i].message = arg.l[i].message
              ELSE /\ ret.value.l[i].error_type = arg.l[i].l[1]
                   /\ ret.value.l[i].message = arg.l[i].l[2]

\* C10: the normaliser leaves its input as it was: after the call the list
\* passed in holds the same elements in the same positions, and every
\* RedditErrorItem passed in is in the state it was in before the call.
C10_InputUnchanged ==
    (op \in {"_form_exception_list", "_parse_exception_list", "normalize"}) =>
        arg_after = arg

====
